---- MODULE Spec2Model ----
(***************************************************************************)
(* Model of ajour's download and self-update core:                         *)
(*   crates/core/src/network.rs  request_async, download_file              *)
(*   crates/core/src/utility.rs  get_latest_release,                       *)
(*                               download_update_to_temp_file              *)
(*   src/main.rs                 main, handle_self_update_temp             *)
(* Strings are sequences of characters, files are byte sequences with a    *)
(* mode, the directory tree is a function from paths to files.             *)
(***************************************************************************)
EXTENDS Integers, Sequences, FiniteSets, TLC

\* ------------------------------------------------------------------ bounds
\* longest response body, in bytes
MaxBody == 2

\* length of the read buffer of download_addon (8000 in the program)
BufLen == 2

\* most chunks a body is delivered in
MaxReads == 2

\* ------------------------------------------------------------ strings
Space == " "

Pct20 == <<"%", "2", "0">>

\* replacen(" ", "%20", 1): the first occurrence only
RECURSIVE ReplaceFirst(_)
ReplaceFirst(s) ==
    IF s = <<>> THEN <<>>
    ELSE IF Head(s) = Space THEN Pct20 \o Tail(s)
    ELSE <<Head(s)>> \o ReplaceFirst(Tail(s))

\* str::replace(" ", "%20"): every occurrence, left to right
RECURSIVE Replace(_)
Replace(s) ==
    IF s = <<>> THEN <<>>
    ELSE (IF Head(s) = Space THEN Pct20 ELSE <<Head(s)>>) \o Replace(Tail(s))

StartsWith(s, p) ==
    /\ Len(s) >= Len(p)
    /\ SubSeq(s, 1, Len(p)) = p

\* every leading occurrence of the prefix removed
RECURSIVE StripAllPrefix(_, _)
StripAllPrefix(s, p) ==
    IF ~StartsWith(s, p) THEN [some |-> FALSE]
    ELSE LET rest == SubSeq(s, Len(p) + 1, Len(s))
         IN  IF StartsWith(rest, p) THEN StripAllPrefix(rest, p)
             ELSE [some |-> TRUE, v |-> rest]

\* str::strip_prefix: None when the prefix is not there
StripPrefix(s, p) ==
    IF StartsWith(s, p) THEN [some |-> TRUE, v |-> SubSeq(s, Len(p) + 1, Len(s))]
    ELSE [some |-> FALSE]

Digits == {"0", "1", "2", "3", "4", "5", "6", "7", "8", "9"}

DigitVal ==
    ("0" :> 0) @@ ("1" :> 1) @@ ("2" :> 2) @@ ("3" :> 3) @@ ("4" :> 4) @@
    ("5" :> 5) @@ ("6" :> 6) @@ ("7" :> 7) @@ ("8" :> 8) @@ ("9" :> 9)

RECURSIVE DecVal(_, _)
DecVal(s, acc) ==
    IF s = <<>> THEN acc ELSE DecVal(Tail(s), acc * 10 + DigitVal[Head(s)])

\* str::parse::<u64>(): an optional "+", then one or more decimal digits
\* (the header values of the model are far below 2^64)
ParseU64(s) ==
    LET d == IF s # <<>> /\ Head(s) = "+" THEN Tail(s) ELSE s
    IN  IF d # <<>> /\ \A i \in 1..Len(d) : d[i] \in Digits
        THEN [ok |-> TRUE, v |-> DecVal(d, 0)]
        ELSE [ok |-> FALSE]

\* a header byte outside visible ASCII, on which HeaderValue::to_str fails
NonAscii == "x80"

ToStr(v) ==
    IF \A i \in 1..Len(v) : v[i] # NonAscii THEN [ok |-> TRUE, v |-> v]
    ELSE [ok |-> FALSE]

\* -------------------------------------------------------------- names
App == <<"a", "p", "p">>

AppUpper == <<"A", "p", "p">>

Other == <<"z", "i", "p">>

TmpPrefix == <<"t", "m", "p", "_">>

\* the download saved under the binary's own name
TmpNameNoPrefix(bin_name) == bin_name

\* format!("tmp_{}", bin_name)
TmpName(bin_name) == TmpPrefix \o bin_name

Mac == <<"m", "a", "c">>

\* the platform binary names a caller passes as bin_name
BinNames == {App, Mac}

\* ---------------------------------------------------------------- paths
ExeDir == "bin"

Join(dir, name) == <<dir, name>>

Parent(path) == path[1]

FileName(path) == path[2]

\* ---------------------------------------------------------------- files
\* the bytes of the installed program
InstalledBytes == <<0>>

\* the bodies a server sends: up to MaxBody bytes, none of the installed ones
Bodies == {[i \in 1..n |-> 1] : n \in 0..MaxBody}

StagedBytes == <<1, 1>>

\* 0o755
Mode755 == 493

\* mode of a file File::create makes anew (0o666 under the usual umask)
DefaultMode == 420

MkFile(bytes, mode) == [bytes |-> bytes, mode |-> mode]

Exists(fsys, path) == path \in DOMAIN fsys

\* File::create: a new empty file, or the existing one truncated
FsCreate(fsys, path) ==
    [p \in DOMAIN fsys \cup {path} |->
        IF p = path
        THEN MkFile(<<>>, IF Exists(fsys, path) THEN fsys[path].mode ELSE DefaultMode)
        ELSE fsys[p]]

FsAppend(fsys, path, bytes) ==
    [fsys EXCEPT ![path].bytes = @ \o bytes]

\* the permissions changed in memory and never written back
FsSetModeNotApplied(fsys, path, mode) == fsys

FsSetMode(fsys, path, mode) ==
    [fsys EXCEPT ![path].mode = mode]

\* a copy in place of the rename: src stays
FsRenameKeepsSrc(fsys, src, dest) ==
    [p \in DOMAIN fsys \cup {dest} |->
        IF p = dest THEN fsys[src] ELSE fsys[p]]

\* std::fs::rename: dest is replaced, src is gone
FsRename(fsys, src, dest) ==
    [p \in (DOMAIN fsys \ {src}) \cup {dest} |->
        IF p = dest THEN fsys[src] ELSE fsys[p]]

\* ------------------------------------------------------------- results
Ok(v) == [kind |-> "Ok", v |-> v]

Err(e) == [kind |-> "Err", e |-> e]

Pending == [kind |-> "Pending"]

None == [some |-> FALSE]

Some(v) == [some |-> TRUE, v |-> v]

\* ClientError::Custom(String)
Custom(msg) == [variant |-> "Custom", msg |-> msg]

\* the errors `?` converts from std::io::Error and from isahc / http errors
IoError == [variant |-> "IoError"]

HttpError == [variant |-> "HttpError"]

IntegrityMsg == "Download failed, body len doesn't match content len"

NoBinaryMsg(bin_name) ==
    [fmt |-> "No new release binary available for {}", arg |-> bin_name]

\* ---------------------------------------------------------------- urls
Url1 == <<"h", "/", "a">>

Url2 == <<"h", "/", "a", " ", "b">>

Url3 == <<" ", "c", " ", " ", "d">>

Url4 == <<"h", "%", "2", "0">>

ReleaseUrl == <<
    "h", "t", "t", "p", "s", ":", "/", "/", "a", "p", "i", ".",
    "g", "i", "t", "h", "u", "b", ".", "c", "o", "m", "/", "r",
    "e", "p", "o", "s", "/", "t", "a", "r", "k", "a", "h", "/",
    "a", "j", "o", "u", "r", "_", "s", "e", "l", "f", "_", "u",
    "p", "d", "a", "t", "e", "_", "t", "e", "s", "t", "/", "r",
    "e", "l", "e", "a", "s", "e", "s", "/", "l", "a", "t", "e",
    "s", "t">>

\* ------------------------------------------------------------ requests
AcceptHeaders == <<<<"ACCEPT", "application/octet-stream">>>>

\* the request request_async builds and hands to send_async
BuildRequest(url, headers, timeout) ==
    [method |-> "GET", uri |-> Replace(url), headers |-> headers,
     timeout |-> timeout]

NoRequest == [method |-> "-"]

\* ----------------------------------------------------------- responses
\* the Content-Length header of a response: absent, or its raw value
NoHeader == [present |-> FALSE]

Header(v) == [present |-> TRUE, v |-> v]

DigitChar == <<"0", "1", "2", "3", "4", "5", "6", "7", "8", "9">>

HeaderValues ==
    {<<"x">>, <<NonAscii>>, <<"+", "1">>}
    \cup {<<DigitChar[n + 1]>> : n \in 0..MaxBody}

ContentLengths == {NoHeader} \cup {Header(v) : v \in HeaderValues}

\* Body::len(): the size the body reports, when it reports one
BodyLens == {None} \cup {Some(n) : n \in 0..MaxBody}

\* a file response: the header, the reported size, and the bytes the stream
\* delivers before it ends
FileResponses ==
    [content_length : ContentLengths, len : BodyLens, body : Bodies]

\* ----------------------------------------------------------------- json
\* a JSON value carries its type; an object is a record of its members
JStr(v) == [t |-> "str", v |-> v]

JNum == [t |-> "num"]

JArr(v) == [t |-> "arr", v |-> v]

JObj(v) == [t |-> "obj", v |-> v]

\* a body that is not JSON at all
JInvalid == [t |-> "invalid"]

JAsset(name, url) ==
    JObj([name |-> JStr(name), browser_download_url |-> JStr(url)])

\* the bodies the release endpoint may answer with
Docs == <<
    JObj([tag_name |-> JStr("v2.0"), id |-> JNum,
          assets |-> JArr(<<JAsset(AppUpper, Url4), JAsset(App, Url2)>>)]),
    JObj([tag_name |-> JStr("v2.1"),
          assets |-> JArr(<<JAsset(AppUpper, Url4)>>)]),
    JObj([tag_name |-> JStr("v2.2"),
          assets |-> JArr(<<JAsset(Other, Url1), JAsset(App, Url3),
                            JAsset(App, Url1)>>)]),
    JObj([tag_name |-> JStr("v2.3"), assets |-> JArr(<<>>)]),
    JObj([message |-> JStr("Not Found")]),
    JObj([tag_name |-> JNum, assets |-> JArr(<<>>)]),
    JObj([tag_name |-> JStr("v2.4"), assets |-> JObj([name |-> JStr(App)])]),
    JObj([tag_name |-> JStr("v2.5"),
          assets |-> JArr(<<JAsset(App, Url1), JObj([name |-> JStr(App)])>>)]),
    JObj([tag_name |-> JStr("v2.6"),
          assets |-> JArr(<<JObj([name |-> JStr(App),
                                  download_url |-> JStr(Url1)])>>)]),
    JArr(<<>>),
    JInvalid >>

HasStr(obj, key) ==
    /\ key \in DOMAIN obj
    /\ obj[key].t = "str"

\* #[derive(Deserialize)] ReleaseAsset: name, and browser_download_url
\* renamed to download_url; unknown members are ignored
AssetShape(j) ==
    /\ j.t = "obj"
    /\ HasStr(j.v, "name")
    /\ HasStr(j.v, "browser_download_url")

ReleaseAsset(j) ==
    [name |-> j.v["name"].v, download_url |-> j.v["browser_download_url"].v]

\* #[derive(Deserialize)] Release: tag_name and assets
ReleaseShape(j) ==
    /\ j.t = "obj"
    /\ HasStr(j.v, "tag_name")
    /\ "assets" \in DOMAIN j.v
    /\ j.v["assets"].t = "arr"
    /\ \A i \in 1..Len(j.v["assets"].v) : AssetShape(j.v["assets"].v[i])

Release(j) ==
    [tag_name |-> j.v["tag_name"].v,
     assets |-> [i \in 1..Len(j.v["assets"].v) |->
                    ReleaseAsset(j.v["assets"].v[i])]]

\* resp.json(): the Release the body deserializes to, or an error
JsonError == [variant |-> "JsonError"]

Json(j) == IF ReleaseShape(j) THEN Ok(Release(j)) ELSE Err(JsonError)

\* ---------------------------------------------------------------- state
VARIABLES
    windows,        \* cfg(windows) of the build
    fs,             \* the directory tree: path -> file
    mainPc,         \* position of main
    exe,            \* std::env::current_exe() of the running process
    opts,           \* the parsed command line
    steps,          \* what main has done in this launch, in order
    exitCode,       \* exit status of the launch, -1 while it runs
    logged,         \* errors passed to log_error in this launch
    configDir,      \* CONFIG_DIR
    glrPc,          \* position of get_latest_release
    glrTrace,       \* outcome of each step of get_latest_release
    glrResult,      \* what get_latest_release returned
    updPc,          \* position of download_update_to_temp_file
    bin_name,
    release,
    asset,
    new_bin_path,
    updResult,      \* what download_update_to_temp_file returned
    updTrace,       \* outcome of each step of download_update_to_temp_file
    dlPc,           \* position of download_file
    dlUrl,
    dest_file,
    resp,           \* the response download_file received
    dlResult,       \* what download_file returned
    reqUrl,         \* url argument of the last request_async call
    sent,           \* the request that call handed to send_async
    updRequests,    \* requests sent for the current update call
    dlFs0,          \* the directory tree when download_file was called
    dirs,           \* the addon directories that exist
    zips,           \* the files in them: path -> bytes
    daPc,           \* position of download_addon
    addon,
    to_directory,
    buffer,
    chunks,         \* the chunks body.read has delivered, in order
    daTrace,        \* outcome of each step of download_addon
    daResult,       \* what download_addon returned
    daFile,         \* the handle `file`: "-", "open" or "closed"
    postUrl,        \* url argument of the last post_json_async call
    posted,         \* the request that call built
    postResult      \* what post_json_async returned

mainVars == <<mainPc, exe, opts, steps, exitCode, logged, configDir>>

glrVars == <<glrPc, glrTrace, glrResult>>

updVars ==
    <<updPc, bin_name, release, asset, new_bin_path, updResult, updTrace>>

dlVars == <<dlPc, dlUrl, dest_file, resp, dlResult>>

netVars == <<reqUrl, sent>>

histVars == <<updRequests, dlFs0>>

diskVars == <<dirs, zips>>

daVars ==
    <<daPc, addon, to_directory, buffer, chunks, daTrace, daResult, daFile>>

postVars == <<postUrl, posted, postResult>>

addonVars == <<diskVars, daVars, postVars>>

vars ==
    <<windows, fs, mainVars, glrVars, updVars, dlVars, netVars, histVars,
      addonVars>>

NoOpts == [self_update_temp |-> FALSE, data_directory |-> None, command |-> None]

DefaultConfigDir == "config"

DataDir == "data"

NoTrace == [client |-> "-", request |-> "-", json |-> "-", doc |-> 0]

NoUpdTrace == [select |-> "-", exe |-> "-", download |-> "-", chmod |-> "-"]

NoAsset == [name |-> <<>>, download_url |-> <<>>]

NoRelease == [tag_name |-> "", assets |-> <<>>]

NoPath == <<"", <<>>>>

NoResp == [content_length |-> NoHeader, len |-> None, body |-> <<>>]

NoFs == [p \in {} |-> MkFile(<<>>, DefaultMode)]

NoAddon == [id |-> "", package |-> None]

NoDir == <<>>

NoDaTrace ==
    [request |-> "-", mkdir |-> "-", create |-> "-", read |-> "-",
     write |-> "-"]

NoZips == [p \in {} |-> <<>>]

\* the installed program
InitFs == (Join(ExeDir, App) :> MkFile(InstalledBytes, Mode755))

\* a process that has not started any operation
FreshTasks ==
    /\ glrPc = "idle" /\ glrTrace = NoTrace /\ glrResult = None
    /\ updPc = "idle" /\ bin_name = <<>> /\ release = NoRelease
    /\ asset = NoAsset /\ new_bin_path = NoPath /\ updResult = Pending
    /\ updTrace = NoUpdTrace
    /\ dlPc = "idle" /\ dlUrl = <<>> /\ dest_file = NoPath
    /\ resp = NoResp /\ dlResult = Pending
    /\ reqUrl = <<>> /\ sent = NoRequest
    /\ updRequests = 0 /\ dlFs0 = NoFs
    /\ daPc = "idle" /\ addon = NoAddon /\ to_directory = NoDir
    /\ buffer = <<>> /\ chunks = <<>> /\ daTrace = NoDaTrace
    /\ daResult = Pending /\ daFile = "-"
    /\ postUrl = <<>> /\ posted = NoRequest /\ postResult = Pending

\* a new process starts with no operation in flight
ResetTasks ==
    /\ glrPc' = "idle" /\ glrTrace' = NoTrace /\ glrResult' = None
    /\ updPc' = "idle" /\ bin_name' = <<>> /\ release' = NoRelease
    /\ asset' = NoAsset /\ new_bin_path' = NoPath /\ updResult' = Pending
    /\ updTrace' = NoUpdTrace
    /\ dlPc' = "idle" /\ dlUrl' = <<>> /\ dest_file' = NoPath
    /\ resp' = NoResp /\ dlResult' = Pending
    /\ reqUrl' = <<>> /\ sent' = NoRequest
    /\ updRequests' = 0 /\ dlFs0' = NoFs
    /\ daPc' = "idle" /\ addon' = NoAddon /\ to_directory' = NoDir
    /\ buffer' = <<>> /\ chunks' = <<>> /\ daTrace' = NoDaTrace
    /\ daResult' = Pending /\ daFile' = "-"
    /\ postUrl' = <<>> /\ posted' = NoRequest /\ postResult' = Pending

Init ==
    /\ windows \in BOOLEAN
    /\ fs = InitFs
    /\ mainPc = "off"
    /\ exe = NoPath
    /\ opts = NoOpts
    /\ steps = <<>>
    /\ exitCode = -1
    /\ logged = {}
    /\ configDir = DefaultConfigDir
    /\ dirs = {}
    /\ zips = NoZips
    /\ FreshTasks

\* --------------------------------------------------------------- main
\* the command lines cli::get_opts can parse
OptsSet ==
    [self_update_temp : BOOLEAN, data_directory : {None, Some(DataDir)},
     command : {None, Some("Update")}]

\* a file the operating system will run: on unix it needs its execute bits
Runnable(path) == windows \/ fs[path].mode = Mode755

\* the operating system starts the program from one of the files on disk
\* (main.rs 18-42: options parsed, logger set up)
Launch ==
    /\ mainPc \in {"off", "exited"}
    /\ \E path \in DOMAIN fs, o \in OptsSet :
        /\ Runnable(path)
        /\ exe' = path
        /\ opts' = o
    /\ mainPc' = "self_update"
    /\ steps' = <<>>
    /\ exitCode' = -1
    /\ logged' = {}
    /\ configDir' = DefaultConfigDir
    /\ ResetTasks
    /\ UNCHANGED <<windows, fs, diskVars>>

\* handle_self_update_temp, given whether current_exe and rename succeed:
\* its result, the directory tree it leaves, whether rename was called
HandleSelfUpdateTemp(temp_exe, fsys, exeOk, renameOk) ==
    IF ~exeOk THEN [result |-> Err(IoError), fs |-> fsys, renamed |-> FALSE]
    ELSE
        LET parent_dir == Parent(temp_exe)
            src_name == FileName(temp_exe)
            stripped == StripPrefix(src_name, TmpPrefix)
        IN  IF ~stripped.some
            THEN [result |-> [kind |-> "Panic"], fs |-> fsys, renamed |-> FALSE]
            ELSE
                LET src == Join(parent_dir, src_name)
                    dest == Join(parent_dir, stripped.v)
                IN  IF renameOk /\ Exists(fsys, src)
                    THEN [result |-> Ok(dest), fs |-> FsRename(fsys, src, dest),
                          renamed |-> TRUE]
                    ELSE [result |-> Err(IoError), fs |-> fsys, renamed |-> TRUE]

\* the finalize step run on every launch
NeedsFinalizeAlways(o) == TRUE

\* main.rs 46
NeedsFinalize(o) == o.self_update_temp

\* the error logged and startup carried on
MainOnSelfUpdateNoExit(result) ==
    CASE result.kind = "Ok" -> [pc |-> "config", code |-> -1, log |-> FALSE]
      [] result.kind = "Err" -> [pc |-> "config", code |-> -1, log |-> TRUE]
      [] result.kind = "Panic" -> [pc |-> "exited", code |-> 101, log |-> FALSE]

\* main.rs 47-50: an error is logged and the process exits with status 1;
\* a panic ends the process with status 101
MainOnSelfUpdate(result) ==
    CASE result.kind = "Ok" -> [pc |-> "config", code |-> -1, log |-> FALSE]
      [] result.kind = "Err" -> [pc |-> "exited", code |-> 1, log |-> TRUE]
      [] result.kind = "Panic" -> [pc |-> "exited", code |-> 101, log |-> FALSE]

\* main.rs 46-51
MainSelfUpdate ==
    /\ mainPc = "self_update"
    /\ IF ~NeedsFinalize(opts)
       THEN /\ mainPc' = "config"
            /\ UNCHANGED <<fs, exe, steps, exitCode, logged>>
       ELSE \E exeOk \in BOOLEAN, renameOk \in BOOLEAN :
            LET h == HandleSelfUpdateTemp(exe, fs, exeOk, renameOk)
            IN  /\ fs' = h.fs
                /\ steps' = IF ~h.renamed THEN steps
                            ELSE IF h.result.kind = "Ok"
                            THEN Append(steps, "rename")
                            ELSE Append(steps, "rename_failed")
                /\ exe' = IF h.result.kind = "Ok" THEN h.result.v ELSE exe
                /\ LET m == MainOnSelfUpdate(h.result)
                   IN  /\ mainPc' = m.pc
                       /\ exitCode' = m.code
                       /\ logged' = IF m.log THEN logged \cup {h.result.e}
                                    ELSE logged
    /\ UNCHANGED <<histVars, addonVars>>
    /\ UNCHANGED <<windows, opts, configDir, glrVars, updVars, dlVars, netVars>>

\* main.rs 53-61
MainConfigDir ==
    /\ mainPc = "config"
    /\ configDir' = IF opts.data_directory.some THEN opts.data_directory.v
                    ELSE configDir
    /\ steps' = Append(steps, "config")
    /\ mainPc' = "command"
    /\ UNCHANGED <<histVars, addonVars>>
    /\ UNCHANGED <<windows, fs, exe, opts, exitCode, logged, glrVars, updVars,
                   dlVars, netVars>>

\* main.rs 63-76: a command is processed and main returns, or the GUI starts
MainCommand ==
    /\ mainPc = "command"
    /\ IF opts.command.some
       THEN /\ steps' = Append(steps, "command")
            /\ \E r \in {Ok("done"), Err(HttpError)} :
                logged' = IF r.kind = "Err" THEN logged \cup {r.e} ELSE logged
            /\ mainPc' = "exited"
            /\ exitCode' = 0
       ELSE /\ steps' = Append(steps, "gui")
            /\ mainPc' = "gui"
            /\ UNCHANGED <<exitCode, logged>>
    /\ UNCHANGED <<histVars, addonVars>>
    /\ UNCHANGED <<windows, fs, exe, opts, configDir, glrVars, updVars, dlVars,
                   netVars>>

\* the window is closed: gui::run returns and main ends
GuiExit ==
    /\ mainPc = "gui"
    /\ mainPc' = "exited"
    /\ exitCode' = 0
    /\ ResetTasks
    /\ UNCHANGED <<windows, fs, exe, opts, steps, logged, configDir, diskVars>>

\* ------------------------------------------------- get_latest_release
\* the GUI checks for an update (utility.rs 36-37)
GlrCall ==
    /\ mainPc = "gui"
    /\ glrPc \in {"idle", "done"}
    /\ updPc \in {"idle", "done"}
    /\ glrPc' = "client"
    /\ glrTrace' = NoTrace
    /\ glrResult' = None
    /\ UNCHANGED <<histVars, addonVars>>
    /\ UNCHANGED <<windows, fs, mainVars, updVars, dlVars, netVars>>

\* a failed step answered with an empty release
OkOrDefault(r) == IF r.kind = "Ok" THEN Some(r.v) ELSE Some(NoRelease)

\* what get_latest_release returns once a step has ended in `r`
\* (`.ok()?` on each step; Some(..) after the last)
OkOrReturn(r) == IF r.kind = "Ok" THEN Some(r.v) ELSE None

\* utility.rs 39: HttpClient::new().ok()?
GlrClient ==
    /\ mainPc = "gui"
    /\ glrPc = "client"
    /\ \E r \in {Ok("client"), Err(HttpError)} :
        /\ glrTrace' = [glrTrace EXCEPT !.client = r.kind]
        /\ IF OkOrReturn(r).some
           THEN glrPc' = "request" /\ UNCHANGED glrResult
           ELSE glrPc' = "done" /\ glrResult' = None
    /\ UNCHANGED <<histVars, addonVars>>
    /\ UNCHANGED <<windows, fs, mainVars, updVars, dlVars, netVars>>

\* utility.rs 41-48: request_async(..).await.ok()?
GlrRequest ==
    /\ mainPc = "gui"
    /\ glrPc = "request"
    /\ reqUrl' = ReleaseUrl
    /\ sent' = BuildRequest(ReleaseUrl, <<>>, None)
    /\ \E r \in {Ok(i) : i \in 1..Len(Docs)} \cup {Err(HttpError)} :
        /\ glrTrace' = [glrTrace EXCEPT !.request = r.kind,
                           !.doc = IF r.kind = "Ok" THEN r.v ELSE 0]
        /\ IF OkOrReturn(r).some
           THEN glrPc' = "json" /\ UNCHANGED glrResult
           ELSE glrPc' = "done" /\ glrResult' = None
    /\ UNCHANGED <<histVars, addonVars>>
    /\ UNCHANGED <<windows, fs, mainVars, updVars, dlVars>>

\* utility.rs 50: Some(resp.json().ok()?); reading the body may fail too
GlrJson ==
    /\ mainPc = "gui"
    /\ glrPc = "json"
    /\ \E r \in {Json(Docs[glrTrace.doc]), Err(IoError)} :
        /\ glrTrace' = [glrTrace EXCEPT !.json = r.kind]
        /\ glrResult' = OkOrReturn(r)
    /\ glrPc' = "done"
    /\ UNCHANGED <<histVars, addonVars>>
    /\ UNCHANGED <<windows, fs, mainVars, updVars, dlVars, netVars>>

\* ---------------------------------------- download_update_to_temp_file
LowerChar(c) == IF c = "A" THEN "a" ELSE c

Lower(name) == [i \in 1..Len(name) |-> LowerChar(name[i])]

\* the first asset taken when none has the name
FindAssetOrFirst(assets, name) ==
    LET hits == {i \in 1..Len(assets) : assets[i].name = name}
    IN  IF assets = <<>> THEN None
        ELSE IF hits = {} THEN Some(assets[1])
        ELSE Some(assets[CHOOSE i \in hits : \A j \in hits : i <= j])

\* the last asset with the name taken
FindAssetLast(assets, name) ==
    LET hits == {i \in 1..Len(assets) : assets[i].name = name}
    IN  IF hits = {} THEN None
        ELSE Some(assets[CHOOSE i \in hits : \A j \in hits : i >= j])

\* names compared without regard to letter case
FindAssetIgnoreCase(assets, name) ==
    LET hits == {i \in 1..Len(assets) : Lower(assets[i].name) = Lower(name)}
    IN  IF hits = {} THEN None
        ELSE Some(assets[CHOOSE i \in hits : \A j \in hits : i <= j])

\* release.assets.iter().find(|a| a.name == bin_name): the first match
FindAsset(assets, name) ==
    LET hits == {i \in 1..Len(assets) : assets[i].name = name}
    IN  IF hits = {} THEN None
        ELSE Some(assets[CHOOSE i \in hits : \A j \in hits : i <= j])

\* the GUI starts the update with the release it found (utility.rs 55)
UpdCall ==
    /\ mainPc = "gui"
    /\ glrPc = "done"
    /\ glrResult.some
    /\ updPc \in {"idle", "done"}
    /\ \E bn \in BinNames : bin_name' = bn
    /\ release' = glrResult.v
    /\ updPc' = "select"
    /\ asset' = NoAsset
    /\ new_bin_path' = NoPath
    /\ updResult' = Pending
    /\ updTrace' = NoUpdTrace
    /\ dlPc' = "idle" /\ dlUrl' = <<>> /\ dest_file' = NoPath
    /\ resp' = NoResp /\ dlResult' = Pending
    /\ updRequests' = 0
    /\ dlFs0' = NoFs
    /\ UNCHANGED <<windows, fs, mainVars, glrVars, netVars, addonVars>>

\* utility.rs 56-63
UpdSelect ==
    /\ mainPc = "gui"
    /\ updPc = "select"
    /\ LET found == FindAsset(release.assets, bin_name)
       IN  IF found.some
           THEN /\ asset' = found.v
                /\ updPc' = "current_exe"
                /\ updTrace' = [updTrace EXCEPT !.select = "Ok"]
                /\ UNCHANGED updResult
           ELSE /\ updResult' = Err(Custom(NoBinaryMsg(bin_name)))
                /\ updPc' = "done"
                /\ updTrace' = [updTrace EXCEPT !.select = "Err"]
                /\ UNCHANGED asset
    /\ UNCHANGED <<histVars, addonVars>>
    /\ UNCHANGED <<windows, fs, mainVars, glrVars, bin_name, release,
                   new_bin_path, dlVars, netVars>>

\* utility.rs 65-72: the temp path beside the executable, then download_file
\* is called with the asset's url
UpdCurrentExe ==
    /\ mainPc = "gui"
    /\ updPc = "current_exe"
    /\ \E exeOk \in BOOLEAN :
        IF exeOk
        THEN /\ new_bin_path' = Join(Parent(exe), TmpName(bin_name))
             /\ updPc' = "download"
             /\ dlPc' = "build"
             /\ dlUrl' = asset.download_url
             /\ dest_file' = new_bin_path'
             /\ updTrace' = [updTrace EXCEPT !.exe = "Ok"]
             /\ dlFs0' = fs
             /\ UNCHANGED updResult
        ELSE /\ updResult' = Err(IoError)
             /\ updPc' = "done"
             /\ updTrace' = [updTrace EXCEPT !.exe = "Err"]
             /\ UNCHANGED <<new_bin_path, dlPc, dlUrl, dest_file, dlFs0>>
    /\ UNCHANGED <<windows, fs, mainVars, glrVars, bin_name, release, asset,
                   resp, dlResult, netVars, updRequests, addonVars>>

\* utility.rs 72-76: `?` on the download; on windows the path is returned
UpdAfterDownload ==
    /\ mainPc = "gui"
    /\ updPc = "download"
    /\ dlPc = "done"
    /\ IF dlResult.kind = "Err"
       THEN updResult' = dlResult /\ updPc' = "done"
       ELSE IF windows
       THEN updResult' = Ok(new_bin_path) /\ updPc' = "done"
       ELSE updPc' = "chmod" /\ UNCHANGED updResult
    /\ updTrace' = [updTrace EXCEPT !.download = dlResult.kind]
    /\ resp' = NoResp
    /\ dlFs0' = NoFs
    /\ UNCHANGED <<updRequests, addonVars>>
    /\ UNCHANGED <<windows, fs, mainVars, glrVars, bin_name, release, asset,
                   new_bin_path, dlPc, dlUrl, dest_file, dlResult, netVars>>

\* utility.rs 79-84: metadata, set_mode(0o755), set_permissions, Ok(path)
UpdChmod ==
    /\ mainPc = "gui"
    /\ updPc = "chmod"
    /\ \E metaOk \in BOOLEAN, setOk \in BOOLEAN :
        IF metaOk /\ setOk /\ Exists(fs, new_bin_path)
        THEN /\ fs' = FsSetMode(fs, new_bin_path, Mode755)
             /\ updResult' = Ok(new_bin_path)
             /\ updTrace' = [updTrace EXCEPT !.chmod = "Ok"]
        ELSE /\ updResult' = Err(IoError)
             /\ updTrace' = [updTrace EXCEPT !.chmod = "Err"]
             /\ UNCHANGED fs
    /\ updPc' = "done"
    /\ UNCHANGED <<histVars, addonVars>>
    /\ UNCHANGED <<windows, mainVars, glrVars, bin_name, release, asset,
                   new_bin_path, dlVars, netVars>>

\* ------------------------------------------------------- download_file
\* network.rs 114-116
DfBuildClient ==
    /\ mainPc = "gui"
    /\ dlPc = "build"
    /\ \E ok \in BOOLEAN :
        IF ok THEN dlPc' = "request" /\ UNCHANGED dlResult
        ELSE dlPc' = "done" /\ dlResult' = Err(HttpError)
    /\ UNCHANGED <<histVars, addonVars>>
    /\ UNCHANGED <<windows, fs, mainVars, glrVars, updVars, dlUrl, dest_file,
                   resp, netVars>>

\* network.rs 118-125
DfRequest ==
    /\ mainPc = "gui"
    /\ dlPc = "request"
    /\ reqUrl' = dlUrl
    /\ sent' = BuildRequest(dlUrl, AcceptHeaders, None)
    /\ updRequests' = updRequests + 1
    /\ UNCHANGED <<dlFs0, addonVars>>
    /\ \/ \E r \in FileResponses :
            /\ resp' = r
            /\ dlPc' = "check"
            /\ UNCHANGED dlResult
       \/ /\ dlPc' = "done"
          /\ dlResult' = Err(HttpError)
          /\ UNCHANGED resp
    /\ UNCHANGED <<windows, fs, mainVars, glrVars, updVars, dlUrl, dest_file>>

\* network.rs 130-136
ContentLength(r) ==
    LET str == IF r.content_length.present
               THEN (LET t == ToStr(r.content_length.v)
                     IN  IF t.ok THEN t.v ELSE <<>>)
               ELSE <<>>
        n == ParseU64(str)
    IN  IF n.ok THEN n.v ELSE 0

\* network.rs 138
BodyLength(r) == IF r.len.some THEN r.len.v ELSE 0

\* network.rs 140
LengthsMatch(r) == BodyLength(r) = ContentLength(r)

\* the destination file created before the lengths are compared
DfCheckCreatesFirst ==
    /\ mainPc = "gui"
    /\ dlPc = "check"
    /\ fs' = FsCreate(fs, dest_file)
    /\ IF LengthsMatch(resp)
       THEN dlPc' = "copy" /\ UNCHANGED dlResult
       ELSE dlPc' = "done" /\ dlResult' = Err(Custom(IntegrityMsg))
    /\ UNCHANGED <<histVars, addonVars>>
    /\ UNCHANGED <<windows, mainVars, glrVars, updVars, dlUrl, dest_file,
                   resp, netVars>>

\* network.rs 127-145
DfCheck ==
    /\ mainPc = "gui"
    /\ dlPc = "check"
    /\ IF LengthsMatch(resp)
       THEN dlPc' = "create" /\ UNCHANGED dlResult
       ELSE dlPc' = "done" /\ dlResult' = Err(Custom(IntegrityMsg))
    /\ UNCHANGED <<histVars, addonVars>>
    /\ UNCHANGED <<windows, fs, mainVars, glrVars, updVars, dlUrl, dest_file,
                   resp, netVars>>

\* network.rs 147
DfCreate ==
    /\ mainPc = "gui"
    /\ dlPc = "create"
    /\ \E ok \in BOOLEAN :
        IF ok
        THEN /\ fs' = FsCreate(fs, dest_file)
             /\ dlPc' = "copy"
             /\ UNCHANGED dlResult
        ELSE /\ dlPc' = "done"
             /\ dlResult' = Err(IoError)
             /\ UNCHANGED fs
    /\ UNCHANGED <<histVars, addonVars>>
    /\ UNCHANGED <<windows, mainVars, glrVars, updVars, dlUrl, dest_file,
                   resp, netVars>>

\* network.rs 149-153: copy ends when the stream ends; a read or write
\* error ends it with the bytes written so far
DfCopy ==
    /\ mainPc = "gui"
    /\ dlPc = "copy"
    /\ \E n \in 0..Len(resp.body), ok \in BOOLEAN :
        /\ ok => n = Len(resp.body)
        /\ fs' = FsAppend(fs, dest_file, SubSeq(resp.body, 1, n))
        /\ dlResult' = IF ok THEN Ok("saved") ELSE Err(IoError)
    /\ dlPc' = "done"
    /\ UNCHANGED <<histVars, addonVars>>
    /\ UNCHANGED <<windows, mainVars, glrVars, updVars, dlUrl, dest_file,
                   resp, netVars>>

\* ------------------------------------------------------ download_addon
\* an addon and the package relevant_release_package() finds for it
AddonId == "a1"

Addons ==
    {[id |-> AddonId, package |-> None],
     [id |-> AddonId, package |-> Some([download_url |-> Url2])]}

AddonDir == <<"addons", "tmp">>

Prefixes(dir) == {SubSeq(dir, 1, k) : k \in 1..Len(dir)}

\* only the last component created
CreateDirLeaf(ds, dir) == ds \cup {dir}

\* create_dir_all: the directory and every missing parent
CreateDirAll(ds, dir) == ds \cup Prefixes(dir)

\* what a failed create_dir_all can leave: some of the parents
PartialDirs(ds, dir) ==
    {ds \cup Prefixes(SubSeq(dir, 1, k)) : k \in 0..(Len(dir) - 1)}

\* to_directory.exists()
DirExists(ds, dir) == dir \in ds

\* to_directory.join(&addon.id)
ZipPath(dir, id) == Append(dir, id)

\* [0; 8000]
ZeroBuffer == [i \in 1..BufLen |-> 0]

\* body.read(&mut buffer) delivering `data`: the first bytes overwritten
ReadInto(buf, data) ==
    [i \in 1..Len(buf) |-> IF i <= Len(data) THEN data[i] ELSE buf[i]]

\* the whole buffer handed to write_all
WholeBuffer(buf, x) == buf

\* &buffer[0..x]
Filled(buf, x) == SubSeq(buf, 1, x)

\* the next x bytes of a body of which `from` bytes were delivered: every
\* byte of the stream carries its position
BodyBytes(from, x) == [i \in 1..x |-> from + i]

RECURSIVE Flatten(_)
Flatten(cs) == IF cs = <<>> THEN <<>> ELSE Head(cs) \o Flatten(Tail(cs))

\* File::create: the file made, or emptied
ZipCreate(zs, path) ==
    [p \in DOMAIN zs \cup {path} |-> IF p = path THEN <<>> ELSE zs[p]]

ZipAppend(zs, path, bytes) == [zs EXCEPT ![path] = @ \o bytes]

\* a read error handed to the caller
LoopExitErr(outcome) == IF outcome = "err" THEN Err(IoError) ELSE Ok("()")

\* what download_addon returns after the loop has ended on a zero-byte
\* read ("eof") or a read error ("err"): `break`, then Ok(())
LoopExit(outcome) == Ok("()")

\* .expect("TODO: error handling") on a failed write_all
WriteFailed == [kind |-> "Panic"]

\* the GUI starts the download of an addon (network.rs 64-68)
DaCall ==
    /\ mainPc = "gui"
    /\ daPc \in {"idle", "done"}
    /\ \E a \in Addons : addon' = a
    /\ to_directory' = AddonDir
    /\ daPc' = "package"
    /\ buffer' = <<>>
    /\ chunks' = <<>>
    /\ daTrace' = NoDaTrace
    /\ daResult' = Pending
    /\ daFile' = "-"
    /\ UNCHANGED <<windows, fs, mainVars, glrVars, updVars, dlVars, netVars,
                   histVars, diskVars, postVars>>

\* network.rs 69, 105: without a package nothing is done
DaPackage ==
    /\ mainPc = "gui"
    /\ daPc = "package"
    /\ IF addon.package.some
       THEN daPc' = "request" /\ UNCHANGED daResult
       ELSE daPc' = "done" /\ daResult' = Ok("()")
    /\ UNCHANGED <<windows, fs, mainVars, glrVars, updVars, dlVars, netVars,
                   histVars, diskVars, postVars, addon, to_directory, buffer,
                   chunks, daTrace, daFile>>

\* network.rs 70-77
DaRequest ==
    /\ mainPc = "gui"
    /\ daPc = "request"
    /\ reqUrl' = addon.package.v.download_url
    /\ sent' = BuildRequest(addon.package.v.download_url, <<>>, None)
    /\ \E ok \in BOOLEAN :
        IF ok
        THEN /\ daPc' = "mkdir"
             /\ daTrace' = [daTrace EXCEPT !.request = "Ok"]
             /\ UNCHANGED daResult
        ELSE /\ daPc' = "done"
             /\ daTrace' = [daTrace EXCEPT !.request = "Err"]
             /\ daResult' = Err(HttpError)
    /\ UNCHANGED <<windows, fs, mainVars, glrVars, updVars, dlVars,
                   histVars, diskVars, postVars, addon, to_directory, buffer,
                   chunks, daFile>>

\* network.rs 79-81
DaMkdir ==
    /\ mainPc = "gui"
    /\ daPc = "mkdir"
    /\ IF DirExists(dirs, to_directory)
       THEN /\ daPc' = "create"
            /\ daTrace' = [daTrace EXCEPT !.mkdir = "Skip"]
            /\ UNCHANGED <<dirs, daResult>>
       ELSE \/ /\ dirs' = CreateDirAll(dirs, to_directory)
               /\ daPc' = "create"
               /\ daTrace' = [daTrace EXCEPT !.mkdir = "Ok"]
               /\ UNCHANGED daResult
            \/ /\ dirs' \in PartialDirs(dirs, to_directory)
               /\ daPc' = "done"
               /\ daTrace' = [daTrace EXCEPT !.mkdir = "Err"]
               /\ daResult' = Err(IoError)
    /\ UNCHANGED <<windows, fs, mainVars, glrVars, updVars, dlVars, netVars,
                   histVars, zips, postVars, addon, to_directory, buffer,
                   chunks, daFile>>

\* network.rs 83-85
DaCreate ==
    /\ mainPc = "gui"
    /\ daPc = "create"
    /\ buffer' = ZeroBuffer
    /\ \E ok \in BOOLEAN :
        /\ ok => DirExists(dirs, to_directory)
        /\ IF ok
           THEN /\ zips' = ZipCreate(zips, ZipPath(to_directory, addon.id))
                /\ daFile' = "open"
                /\ daPc' = "loop"
                /\ daTrace' = [daTrace EXCEPT !.create = "Ok"]
                /\ UNCHANGED daResult
           ELSE /\ daPc' = "done"
                /\ daTrace' = [daTrace EXCEPT !.create = "Err"]
                /\ daResult' = Err(IoError)
                /\ UNCHANGED <<zips, daFile>>
    /\ UNCHANGED <<windows, fs, mainVars, glrVars, updVars, dlVars, netVars,
                   histVars, dirs, postVars, addon, to_directory, chunks>>

\* network.rs 87-105: one turn of the loop. The file is dropped, and with
\* that flushed and closed, when the function is left.
DaRead ==
    /\ mainPc = "gui"
    /\ daPc = "loop"
    /\ LET path == ZipPath(to_directory, addon.id)
           received == Len(Flatten(chunks))
       IN  \/ \E outcome \in {"eof", "err"} :
                /\ daTrace' = [daTrace EXCEPT !.read = outcome]
                /\ daResult' = LoopExit(outcome)
                /\ daPc' = "done"
                /\ daFile' = "closed"
                /\ UNCHANGED <<buffer, chunks, zips>>
           \/ /\ Len(chunks) < MaxReads
              /\ \E x \in 1..BufLen :
                    /\ buffer' = ReadInto(buffer, BodyBytes(received, x))
                    /\ chunks' = Append(chunks, BodyBytes(received, x))
                    /\ LET data == Filled(buffer', x)
                       IN  \/ /\ zips' = ZipAppend(zips, path, data)
                              /\ daTrace' = [daTrace EXCEPT !.read = "data",
                                                            !.write = "Ok"]
                              /\ UNCHANGED <<daPc, daResult, daFile>>
                           \/ \E w \in 0..(Len(data) - 1) :
                              /\ zips' = ZipAppend(zips, path,
                                                   SubSeq(data, 1, w))
                              /\ daTrace' = [daTrace EXCEPT !.read = "data",
                                                            !.write = "Err"]
                              /\ daResult' = WriteFailed
                              /\ daPc' = "done"
                              /\ daFile' = "closed"
    /\ UNCHANGED <<windows, fs, mainVars, glrVars, updVars, dlVars, netVars,
                   histVars, dirs, postVars, addon, to_directory>>

\* ----------------------------------------------------- post_json_async
PostUrls == {Url1, Url2}

PostTimeouts == {None, Some(30)}

ContentTypeJson == <<"content-type", "application/json">>

\* network.rs 43-56: the request post_json_async builds
BuildPost(url, headers, timeout) ==
    [method |-> "POST", uri |-> url,
     headers |-> <<ContentTypeJson>> \o headers, timeout |-> timeout,
     body |-> "json"]

\* network.rs 37-60: serde_json::to_vec may fail before the request is
\* built; send_async may fail after
PostJsonAsync ==
    /\ mainPc = "gui"
    /\ \E url \in PostUrls, timeout \in PostTimeouts,
          serOk \in BOOLEAN, sendOk \in BOOLEAN :
        /\ postUrl' = url
        /\ posted' = IF serOk THEN BuildPost(url, AcceptHeaders, timeout)
                     ELSE NoRequest
        /\ postResult' = IF serOk /\ sendOk THEN Ok("response")
                         ELSE IF serOk THEN Err(HttpError)
                         ELSE Err(JsonError)
    /\ UNCHANGED <<windows, fs, mainVars, glrVars, updVars, dlVars, netVars,
                   histVars, diskVars, daVars>>

\* ------------------------------------------------------- specification
Next ==
    \/ Launch
    \/ MainSelfUpdate
    \/ MainConfigDir
    \/ MainCommand
    \/ GuiExit
    \/ GlrCall
    \/ GlrClient
    \/ GlrRequest
    \/ GlrJson
    \/ UpdCall
    \/ UpdSelect
    \/ UpdCurrentExe
    \/ UpdAfterDownload
    \/ UpdChmod
    \/ DfBuildClient
    \/ DfRequest
    \/ DfCheck
    \/ DfCreate
    \/ DfCopy

Spec == Init /\ [][Next]_vars

\* the addon directory as a launch can find it
AddonLayouts == {{}, {<<"addons">>}}

InitAddon ==
    /\ windows \in BOOLEAN
    /\ fs = InitFs
    /\ mainPc = "off"
    /\ exe = NoPath
    /\ opts = NoOpts
    /\ steps = <<>>
    /\ exitCode = -1
    /\ logged = {}
    /\ configDir = DefaultConfigDir
    /\ dirs \in AddonLayouts
    /\ zips = NoZips
    /\ FreshTasks

\* the program downloading addons and posting JSON
NextAddon ==
    \/ Launch
    \/ MainSelfUpdate
    \/ MainConfigDir
    \/ MainCommand
    \/ GuiExit
    \/ DaCall
    \/ DaPackage
    \/ DaRequest
    \/ DaMkdir
    \/ DaCreate
    \/ DaRead
    \/ PostJsonAsync

SpecAddon == InitAddon /\ [][NextAddon]_vars

\* a second directory holding a copy of the program
OtherDir == "opt"

\* the directory trees a launch can find: the installed program alone,
\* beside a staged download, beside a file whose name has the prefix
\* twice, and with a staged download in another directory
Layouts ==
    {InitFs,
     InitFs @@ (Join(ExeDir, TmpName(App)) :> MkFile(StagedBytes, Mode755)),
     InitFs @@ (Join(ExeDir, TmpName(TmpName(App))) :>
                    MkFile(StagedBytes, Mode755)),
     InitFs @@ (Join(OtherDir, TmpName(App)) :> MkFile(StagedBytes, Mode755))}

InitLaunch ==
    /\ windows \in BOOLEAN
    /\ fs \in Layouts
    /\ mainPc = "off"
    /\ exe = NoPath
    /\ opts = NoOpts
    /\ steps = <<>>
    /\ exitCode = -1
    /\ logged = {}
    /\ configDir = DefaultConfigDir
    /\ dirs = {}
    /\ zips = NoZips
    /\ FreshTasks

\* the launches of the program, whatever it is started from
NextLaunch ==
    \/ Launch
    \/ MainSelfUpdate
    \/ MainConfigDir
    \/ MainCommand
    \/ GuiExit

SpecLaunch == InitLaunch /\ [][NextLaunch]_vars

\* --------------------------------------------------------------- claims
Range(seq) == {seq[i] : i \in 1..Len(seq)}

\* download_file has returned and its caller has not yet taken the result
DfReturned == dlPc = "done" /\ updPc = "download"

\* C1: every download_file call that returns success leaves a destination
\* file whose size is the Content-Length value, and every response whose
\* Content-Length differs from the length of its body makes the call fail
\* with the integrity error
C1_SizeIsContentLength ==
    DfReturned =>
        /\ dlResult.kind = "Ok" =>
                Len(fs[dest_file].bytes) = ContentLength(resp)
        /\ ContentLength(resp) # Len(resp.body) =>
                dlResult = Err(Custom(IntegrityMsg))

\* C2: download_file fails with the integrity error whenever the
\* Content-Length value (0 when the header is absent or does not parse)
\* differs from the number of body bytes received, as when more bytes are
\* advertised than delivered
C2_MismatchIsIntegrityError ==
    LET advertised ==
            IF resp.content_length.present /\ ParseU64(resp.content_length.v).ok
            THEN ParseU64(resp.content_length.v).v
            ELSE 0
        received == Len(resp.body)
    IN  (DfReturned /\ advertised # received) =>
            (dlResult.kind = "Err" /\ dlResult.e = Custom(IntegrityMsg))

\* C3: when no asset of the release has the expected name the update ends
\* with the "no binary" error; when exactly one has it, that asset is
\* selected and its url is the one downloaded; names match only when equal
\* character for character
C3_AssetSelection ==
    LET n == Len(release.assets)
        matches == {i \in 1..n : release.assets[i].name = bin_name}
    IN  (updPc \notin {"idle", "select"}) =>
            /\ matches = {} =>
                    /\ updPc = "done"
                    /\ updResult = Err(Custom(NoBinaryMsg(bin_name)))
                    /\ dlPc = "idle"
            /\ Cardinality(matches) = 1 =>
                    /\ \A i \in matches : asset = release.assets[i]
                    /\ dlPc # "idle" => dlUrl = asset.download_url
            /\ asset # NoAsset => asset.name = bin_name

\* one asset has the name, another before it differs from it in case only
C3_Witness ==
    /\ dlPc = "request"
    /\ Cardinality({i \in 1..Len(release.assets) :
                        release.assets[i].name = bin_name}) = 1
    /\ \E i \in 1..Len(release.assets) :
        /\ release.assets[i].name # bin_name
        /\ Lower(release.assets[i].name) = Lower(bin_name)

\* C4: a finalize that succeeds, run from tmp_<name>, leaves <name> in the
\* same directory holding the bytes the staged file held, and the tmp_ name
\* gone
C4_Finalize ==
    [][(mainPc = "self_update" /\ opts.self_update_temp /\ mainPc' = "config")
        => /\ StartsWith(FileName(exe), TmpPrefix)
           /\ LET name == SubSeq(FileName(exe), 5, Len(FileName(exe)))
                  dest == Join(Parent(exe), name)
              IN  /\ dest \in DOMAIN fs'
                  /\ fs'[dest].bytes = fs[exe].bytes
                  /\ exe \notin DOMAIN fs'
                  /\ \A p \in DOMAIN fs \ {exe, dest} :
                        p \in DOMAIN fs' /\ fs'[p] = fs[p]]_vars

\* the staged download has become the program
C4_Witness ==
    /\ mainPc = "config"
    /\ "rename" \in Range(steps)
    /\ FileName(exe) = App
    /\ Exists(fs, exe)
    /\ fs[exe].bytes = StagedBytes
    /\ ~Exists(fs, Join(ExeDir, TmpName(App)))

NormalSteps == {"config", "command", "gui"}

\* C5: a launch with the flag whose rename fails logs the error, exits with
\* a non-zero status, and runs no step of normal startup
C5_RenameFailureIsFatal ==
    (opts.self_update_temp /\ "rename_failed" \in Range(steps)) =>
        /\ mainPc = "exited"
        /\ exitCode > 0
        /\ logged # {}
        /\ Range(steps) \cap NormalSteps = {}
        /\ glrPc = "idle" /\ updPc = "idle" /\ dlPc = "idle"

C5_Witness ==
    /\ opts.self_update_temp
    /\ steps = <<"rename_failed">>
    /\ Exists(fs, exe)
    /\ FileName(exe) = TmpName(App)

\* C6: with the flag the rename is attempted before every normal-startup
\* step; without it no rename is made and the step after the flag test is
\* the first step of normal startup
C6_FinalizeBeforeStartup ==
    /\ [](opts.self_update_temp =>
            \A i \in 1..Len(steps) :
                steps[i] \in NormalSteps =>
                    \E j \in 1..(i - 1) : steps[j] \in {"rename", "rename_failed"})
    /\ []((opts.self_update_temp /\ mainPc \in {"config", "command", "gui"})
            => steps # <<>> /\ steps[1] = "rename")
    /\ [](~opts.self_update_temp =>
            Range(steps) \cap {"rename", "rename_failed"} = {})
    /\ [][(mainPc = "self_update" /\ ~opts.self_update_temp)
            => (mainPc' = "config" /\ fs' = fs)]_vars

C6_Witness ==
    /\ opts.self_update_temp
    /\ steps = <<"rename", "config", "gui">>

\* the state of the self-update sequencer
SequencerState ==
    IF updPc \in {"select", "current_exe", "download", "chmod"} THEN "Staging"
    ELSE IF updPc = "done" /\ updResult.kind = "Ok" THEN "PendingRestart"
    ELSE "Idle"

\* C7: the staged path tmp_<bin_name> is returned only when the download
\* has succeeded and (off windows) the staged file has mode 0o755; when the
\* selection, the download or the permission step fails an error is
\* returned and the sequencer is not in Pending-Restart
C7_StagedOnlyWhenComplete ==
    /\ updResult.kind = "Ok" =>
            /\ updResult.v = Join(Parent(exe), TmpPrefix \o bin_name)
            /\ dlPc = "done" /\ dlResult.kind = "Ok"
            /\ Exists(fs, updResult.v)
            /\ ~windows => fs[updResult.v].mode = Mode755
    /\ ("Err" \in {updTrace.select, updTrace.download, updTrace.chmod}) =>
            /\ updPc = "done"
            /\ updResult.kind = "Err"
            /\ SequencerState # "PendingRestart"
    /\ SequencerState = "PendingRestart" =>
            /\ updTrace.select = "Ok" /\ updTrace.download = "Ok"
            /\ ~windows => updTrace.chmod = "Ok"

C7_Witness ==
    /\ SequencerState = "PendingRestart"
    /\ ~windows
    /\ updTrace.chmod = "Ok"

\* C8: staging writes no file but tmp_<bin_name> in the directory of the
\* running executable and leaves the installed program <bin_name> as it is;
\* outside staging the directory changes only by the finalize rename
C8_StagingLeavesProgram ==
    [][\A p \in DOMAIN fs \cup DOMAIN fs' :
        (p \notin DOMAIN fs \/ p \notin DOMAIN fs' \/ fs'[p] # fs[p]) =>
            \/ /\ mainPc = "gui"
               /\ updPc \in {"download", "chmod"}
               /\ p = Join(Parent(exe), TmpPrefix \o bin_name)
               /\ p # Join(Parent(exe), bin_name)
            \/ /\ mainPc = "self_update"
               /\ opts.self_update_temp
               /\ "rename" \in Range(steps')]_vars

\* an update is staged and the installed program still has its old bytes
C8_Witness ==
    /\ SequencerState = "PendingRestart"
    /\ FileName(exe) = App
    /\ fs[exe].bytes = InstalledBytes
    /\ fs[Join(ExeDir, TmpName(App))].bytes = StagedBytes

\* the bodies of Docs that have the shape
\* {tag_name, assets[{name, browser_download_url}]}
ShapedDocs == {1, 2, 3, 4}

\* C9: get_latest_release returns None when the client cannot be built, when
\* the request fails and when the body does not have the release shape; it
\* returns a release only when all three steps succeed
C9_NoneOnEveryFailure ==
    glrPc = "done" =>
        /\ glrResult.some <=>
                /\ glrTrace.client = "Ok"
                /\ glrTrace.request = "Ok"
                /\ glrTrace.json = "Ok"
        /\ (glrTrace.request = "Ok" /\ glrTrace.doc \notin ShapedDocs) =>
                glrResult = None
        /\ glrResult.some =>
                /\ glrTrace.doc \in ShapedDocs
                /\ Len(glrResult.v.assets) = Len(Docs[glrTrace.doc].v.assets.v)

\* the body was JSON of another shape
C9_Witness ==
    /\ glrPc = "done"
    /\ glrTrace.request = "Ok"
    /\ glrTrace.doc = 9
    /\ glrResult = None

Spaces(s) == {i \in 1..Len(s) : s[i] = Space}

\* C10: the uri of every request has no space: each space of the url is
\* replaced by %20, every other character is kept, in order
C10_SpacesEncoded ==
    sent # NoRequest =>
        LET sp == Spaces(reqUrl)
        IN  /\ Spaces(sent.uri) = {}
            /\ Len(sent.uri) = Len(reqUrl) + 2 * Cardinality(sp)
            /\ \A i \in 1..Len(reqUrl) :
                LET k == i + 2 * Cardinality({j \in sp : j < i})
                IN  IF i \in sp
                    THEN SubSeq(sent.uri, k, k + 2) = Pct20
                    ELSE sent.uri[k] = reqUrl[i]

\* a url with several spaces has been requested
C10_Witness ==
    /\ sent # NoRequest
    /\ Cardinality(Spaces(reqUrl)) > 1

\* download_addon has returned
DaReturned == daPc = "done"

\* the file download_addon writes
DaZip == ZipPath(to_directory, addon.id)

\* C11: when the body of a download_addon call ends with a zero-byte read
\* and no error, the file <to_directory>/<addon id> holds exactly the chunks
\* read, joined in the order they arrived, and the file is flushed and closed
C11_FileIsConcatenation ==
    (DaReturned /\ daTrace.read = "eof") =>
        /\ DaZip \in DOMAIN zips
        /\ zips[DaZip] = Flatten(chunks)
        /\ daFile = "closed"

\* a body that arrived as a short chunk and a full one
C11_Witness ==
    /\ DaReturned
    /\ daTrace.read = "eof"
    /\ daResult = Ok("()")
    /\ Len(chunks) = 2
    /\ Len(chunks[1]) = 1
    /\ Len(chunks[2]) = BufLen
    /\ zips[DaZip] = chunks[1] \o chunks[2]

\* the assets of the release that carry the expected name, by position
Matches == {i \in 1..Len(release.assets) : release.assets[i].name = bin_name}

\* C12: whenever download_update_to_temp_file is given a release none of
\* whose assets has the expected name, the call, whatever ran before it,
\* returns the "no binary" error, sends no request and leaves the directory
\* tree, and with it the tmp_ file, as it was
C12_NoAssetEveryTime ==
    [][(updPc = "select" /\ Matches = {} /\ mainPc' = "gui") =>
            /\ updPc' = "done"
            /\ updResult' = Err(Custom(NoBinaryMsg(bin_name)))
            /\ fs' = fs
            /\ sent' = sent
            /\ updRequests' = 0
            /\ dlPc' = "idle"]_vars

\* the error returned for a release that has assets, by a program an
\* earlier update has staged a download for
C12_Witness ==
    /\ updPc = "done"
    /\ Matches = {}
    /\ release.assets # <<>>
    /\ bin_name = App
    /\ updResult = Err(Custom(NoBinaryMsg(bin_name)))
    /\ updRequests = 0
    /\ Exists(fs, Join(ExeDir, TmpName(App)))

\* C17: a download_file call that fails with the integrity error, or whose
\* request fails, leaves the destination path as it was when the call began
C17_FailureLeavesDestination ==
    (DfReturned /\ dlResult \in {Err(Custom(IntegrityMsg)), Err(HttpError)}) =>
        /\ Exists(fs, dest_file) <=> Exists(dlFs0, dest_file)
        /\ Exists(fs, dest_file) => fs[dest_file] = dlFs0[dest_file]

\* the integrity error returned while an earlier download is at the
\* destination
C17_Witness ==
    /\ DfReturned
    /\ dlResult = Err(Custom(IntegrityMsg))
    /\ Exists(fs, dest_file)
    /\ fs[dest_file].bytes # <<>>

\* C18: when several assets of the release have the expected name, the
\* first of them in the order of the release is the one selected and
\* downloaded (the request the call has sent is for its url), and a call
\* sends one download request, never more
C18_FirstMatchOnly ==
    (updPc \notin {"idle", "select"} /\ Matches # {}) =>
        /\ asset = release.assets[CHOOSE i \in Matches :
                                    \A j \in Matches : i <= j]
        /\ updRequests <= 1
        /\ (updRequests = 1 /\ updPc # "done") =>
                /\ reqUrl = asset.download_url
                /\ sent.uri = Replace(asset.download_url)
        /\ (updPc = "done" /\ updResult.kind = "Ok") => updRequests = 1

\* an update that succeeded on a release with two assets of the name
C18_Witness ==
    /\ updPc = "done"
    /\ updResult.kind = "Ok"
    /\ Cardinality(Matches) = 2
    /\ \E i \in Matches, j \in Matches :
        /\ i < j
        /\ release.assets[i].download_url # release.assets[j].download_url
        /\ reqUrl = release.assets[i].download_url

\* C13: the loop of download_addon ends at the first zero-byte read or the
\* first read error; after a read error the file holds the chunks written
\* until then and nothing more, and the call returns success
C13_ReadErrorTruncates ==
    /\ [][(daPc = "loop" /\ daTrace'.read \in {"eof", "err"}) =>
                (daPc' = "done" /\ zips' = zips /\ chunks' = chunks)]_vars
    /\ [](DaReturned /\ daTrace.read = "err" =>
                /\ daResult = Ok("()")
                /\ zips[DaZip] = Flatten(chunks))

\* a read error after a chunk was written
C13_Witness ==
    /\ DaReturned
    /\ daTrace.read = "err"
    /\ daResult = Ok("()")
    /\ chunks # <<>>
    /\ zips[DaZip] = Flatten(chunks)

\* C14: a download_addon call in which the request, the creation of the
\* directory, the creation of the file or the write of a chunk failed
\* returns an error to its caller
C14_FailuresReturned ==
    (/\ DaReturned
     /\ "Err" \in {daTrace.request, daTrace.mkdir, daTrace.create,
                   daTrace.write}) =>
        daResult.kind = "Err"

\* C15: the request post_json_async builds has every space of the url
\* replaced by %20, and has the uri, headers and timeout request_async
\* builds for the same arguments, with the content-type header before them
C15_PostUrlContract ==
    posted # NoRequest =>
        LET get == BuildRequest(postUrl, AcceptHeaders, posted.timeout)
        IN  /\ posted.method = "POST"
            /\ Space \notin Range(posted.uri)
            /\ posted.uri = get.uri
            /\ posted.headers = <<ContentTypeJson>> \o get.headers
            /\ posted.timeout = get.timeout

\* C16: in download_addon the directory and its parents exist when the
\* file is created and while chunks are written; the directory is created
\* only when it is absent; a failed request leaves directories and files
\* as they were
C16_DirectoryBeforeFile ==
    /\ [](daFile # "-" => Prefixes(to_directory) \subseteq dirs)
    /\ [][zips' # zips =>
            (Prefixes(to_directory) \subseteq dirs /\ dirs' = dirs)]_vars
    /\ [][dirs' # dirs =>
            (daPc = "mkdir" /\ ~DirExists(dirs, to_directory))]_vars
    /\ [][(daPc = "request" /\ daTrace'.request = "Err") =>
            (daPc' = "done" /\ dirs' = dirs /\ zips' = zips
             /\ daFile' = "-")]_vars

\* a chunk written into a directory the call created with its parent
C16_Witness ==
    /\ daPc = "loop"
    /\ daTrace.mkdir = "Ok"
    /\ chunks # <<>>
    /\ zips[DaZip] # <<>>
    /\ Prefixes(to_directory) \subseteq dirs
    /\ Len(to_directory) > 1

\* C19: the only change of the directory tree a launch makes is the rename
\* of the running executable, within its own directory, to its file name
\* with one leading "tmp_" removed; a launch told to finalize from a file
\* whose name does not start with "tmp_" renames nothing, ends with a
\* failure status and takes no step of the normal startup
C19_RenameOnlyOwnTmp ==
    /\ [][fs' # fs =>
            LET name == FileName(exe)
                dest == Join(Parent(exe),
                             SubSeq(name, Len(TmpPrefix) + 1, Len(name)))
            IN  /\ mainPc = "self_update"
                /\ opts.self_update_temp
                /\ StartsWith(name, TmpPrefix)
                /\ fs' = [p \in (DOMAIN fs \ {exe}) \cup {dest} |->
                            IF p = dest THEN fs[exe] ELSE fs[p]]]_vars
    /\ [][(/\ mainPc = "self_update"
           /\ opts.self_update_temp
           /\ ~StartsWith(FileName(exe), TmpPrefix)) =>
            /\ fs' = fs
            /\ mainPc' = "exited"
            /\ exitCode' \notin {0, -1}
            /\ steps' = <<>>]_vars

\* the file with the prefix twice was run and now carries it once
C19_Witness ==
    /\ "rename" \in Range(steps)
    /\ exe = Join(ExeDir, TmpName(App))
    /\ ~Exists(fs, Join(ExeDir, TmpName(TmpName(App))))
    /\ fs[exe].bytes = StagedBytes

====
